---- MODULE Spec2Model ----
(***************************************************************************)
(* A model of FastqDetangler (src/fastq_detangler/fastq_detangler.py):     *)
(* detangle() validates the input path, parses the interleaved FASTQ file  *)
(* into two collections keyed by base name, partitions them into missing   *)
(* and paired reads and writes four output files.                          *)
(*                                                                         *)
(* Text is modelled as sequences of one-character strings, so that the     *)
(* regular expressions, str.strip, str.startswith, readlines and the       *)
(* lexicographic order of sorted() are computed character by character.    *)
(* A Python dict is a sequence of entries [k, v] in insertion order with   *)
(* unique keys.                                                            *)
(***************************************************************************)
EXTENDS Integers, Sequences, FiniteSets, TLC

VARIABLES
    input_file,    \* the input path on disk: [exists, is_file, content]
    disk,          \* the four output paths on disk: file -> [exists, data]
    disk0,         \* the output paths as they were when detangle was called
    pc,            \* the position of detangle()
    err,           \* the exception that left detangle(): [kind, msg, at]
    lines,         \* _parse_fastq_file: lines = f.readlines()
    i,             \* _parse_fastq_file: the cursor
    header,        \* _parse_fastq_file: the header last classified
    read_type,     \* _parse_fastq_file: its classification
    accepted,      \* _parse_fastq_file: the blocks counted by valid_reads
    malformed_records,  \* _parse_fastq_file: the cursors counted by malformed_records
    r1_reads,      \* the first-mate collection
    r2_reads,      \* the second-mate collection
    missing_r1, missing_r2, paired_r1, paired_r2,   \* the four partitions
    output_files,  \* detangle: the files written so far in this run
    opened         \* the output paths this run's open(.., "w") created

vars == <<input_file, disk, disk0, pc, err, lines, i, header, read_type,
          accepted, malformed_records, r1_reads, r2_reads, missing_r1,
          missing_r2, paired_r1, paired_r2, output_files, opened>>

\* ------------------------------------------------------------------ bounds

MaxChunks == 3      \* an input file is made of at most this many chunks
MaxHdrLen == 5      \* header strings handed to the classifier alone
MaxElapsed == 1     \* time.time() - start_time ranges over 0..MaxElapsed

\* -------------------------------------------------------------------- text

NL == "\n"
None == "None"

\* ord(c) of the characters the model uses.
Code(c) ==
    CASE c = NL  -> 10
      [] c = " " -> 32
      [] c = "+" -> 43
      [] c = "/" -> 47
      [] c = "1" -> 49
      [] c = "2" -> 50
      [] c = "3" -> 51
      [] c = "@" -> 64
      [] c = "A" -> 65
      [] c = "C" -> 67
      [] c = "I" -> 73
      [] c = "a" -> 97
      [] c = "b" -> 98
      [] c = "x" -> 120
      [] c = "z" -> 122

IsSpace(c) == c \in {" ", NL}

\* str.startswith(c) for a one-character prefix.
StartsWith(s, c) == Len(s) > 0 /\ s[1] = c

RECURSIVE LStrip(_)
LStrip(s) == IF Len(s) > 0 /\ IsSpace(s[1]) THEN LStrip(Tail(s)) ELSE s

RECURSIVE RStrip(_)
RStrip(s) ==
    IF Len(s) > 0 /\ IsSpace(s[Len(s)])
    THEN RStrip(SubSeq(s, 1, Len(s) - 1))
    ELSE s

\* str.strip()
Strip(s) == RStrip(LStrip(s))

\* The positions at which "$" matches in s: the end of the string, and just
\* before a newline that is the last character.
DollarEnds(s) ==
    {Len(s)} \cup (IF Len(s) > 0 /\ s[Len(s)] = NL THEN {Len(s) - 1} ELSE {})

\* The ends e at which re.compile(r"^@(.+)/<digit>$").match(h) succeeds:
\* "@", one or more characters other than newline, "/", the digit, "$".
MatchEnds(h, digit) ==
    {e \in DollarEnds(h) :
        /\ e >= 4
        /\ h[1] = "@"
        /\ h[e - 1] = "/"
        /\ h[e] = digit
        /\ \A k \in 2..(e - 2) : h[k] # NL}

r1_pattern(h) == MatchEnds(h, "1")
r2_pattern(h) == MatchEnds(h, "2")

\* match.group(1)
Group1(h, ends) == SubSeq(h, 2, (CHOOSE e \in ends : TRUE) - 2)

_identify_read_type(h) ==
    IF r1_pattern(h) # {} THEN "R1"
    ELSE IF r2_pattern(h) # {} THEN "R2"
    ELSE None

_extract_base_name(h) ==
    IF r1_pattern(h) # {} THEN Group1(h, r1_pattern(h))
    ELSE IF r2_pattern(h) # {} THEN Group1(h, r2_pattern(h))
    ELSE IF Len(h) = 0 THEN <<>> ELSE Tail(h)

\* f.readlines(): the text cut after every newline, the terminators kept; a
\* last line without a terminator is a line too.
RECURSIVE ReadLinesFrom(_, _, _)
ReadLinesFrom(text, cur, out) ==
    IF text = <<>>
    THEN IF cur = <<>> THEN out ELSE Append(out, cur)
    ELSE IF Head(text) = NL
         THEN ReadLinesFrom(Tail(text), <<>>, Append(out, Append(cur, NL)))
         ELSE ReadLinesFrom(Tail(text), Append(cur, Head(text)), out)

ReadLines(text) == ReadLinesFrom(text, <<>>, <<>>)

\* The characters of a list of strings, one after the other (f.writelines).
RECURSIVE Flatten(_)
Flatten(ss) == IF ss = <<>> THEN <<>> ELSE Head(ss) \o Flatten(Tail(ss))

\* a < b for Python str: codepoint by codepoint, a proper prefix first.
RECURSIVE StrLess(_, _)
StrLess(a, b) ==
    IF b = <<>> THEN FALSE
    ELSE IF a = <<>> THEN TRUE
    ELSE IF Code(Head(a)) # Code(Head(b)) THEN Code(Head(a)) < Code(Head(b))
    ELSE StrLess(Tail(a), Tail(b))

\* -------------------------------------------------------------------- dict

EmptyDict == <<>>
Keys(d) == {d[n].k : n \in 1..Len(d)}
KeySeq(d) == [n \in 1..Len(d) |-> d[n].k]
Has(d, key) == key \in Keys(d)
Get(d, key) == d[CHOOSE n \in 1..Len(d) : d[n].k = key].v

\* SetItem with the assignment skipped for a key already present.
SetItemKeepFirst(d, key, value) ==
    IF Has(d, key) THEN d ELSE Append(d, [k |-> key, v |-> value])

\* SetItem adding an entry without looking for the key.
SetItemAppend(d, key, value) == Append(d, [k |-> key, v |-> value])

\* d[key] = value: a new key goes last, an old key keeps its place.
SetItem(d, key, value) ==
    IF Has(d, key)
    THEN [n \in 1..Len(d) |->
             IF d[n].k = key THEN [k |-> key, v |-> value] ELSE d[n]]
    ELSE Append(d, [k |-> key, v |-> value])

\* sorted(keys): ascending by StrLess.
RECURSIVE SortedKeys(_)
SortedKeys(ks) ==
    IF ks = {} THEN <<>>
    ELSE LET m == CHOOSE a \in ks : \A b \in ks \ {a} : StrLess(a, b)
         IN  <<m>> \o SortedKeys(ks \ {m})

\* ---------------------------------------------------------------- analysis

\* NotIn with the membership test made against the collection itself.
NotInSelf(d, other) == SelectSeq(d, LAMBDA e : ~Has(d, e.k))

\* {name: reads for name, reads in d.items() if name not in other}
NotIn(d, other) == SelectSeq(d, LAMBDA e : ~Has(other, e.k))

_identify_missing_pairs(r1, r2) == <<NotIn(r1, r2), NotIn(r2, r1)>>

\* set(r1_reads.keys()) & set(r2_reads.keys())
paired_names(r1, r2) == Keys(r1) \cap Keys(r2)

\* The orders in which iterating over a set can yield its elements.
IterationOrders(S) ==
    {s \in [1..Cardinality(S) -> S] : \A m, n \in DOMAIN s : s[m] = s[n] => m = n}

\* {name: d[name] for name in paired_names}, names in iteration order.
Restrict(d, order) == [n \in DOMAIN order |-> [k |-> order[n], v |-> Get(d, order[n])]]

_identify_paired_reads(r1, r2, order) == <<Restrict(r1, order), Restrict(r2, order)>>

\* ------------------------------------------------------------------ writer

\* WriteOrderOfKeys without the sort: the keys in insertion order.
WriteOrderUnsorted(reads) == KeySeq(reads)

\* for base_name in sorted(reads.keys())
WriteOrderOfKeys(reads) == SortedKeys(Keys(reads))

\* What _write_fastq_file writes: one writelines(record) per key.
_write_fastq_file(reads) ==
    LET ks == WriteOrderOfKeys(reads)
    IN  [n \in DOMAIN ks |-> Get(reads, ks[n])]

\* The characters of a file holding these writelines calls.
FileText(data) == Flatten([n \in DOMAIN data |-> Flatten(data[n])])

\* ------------------------------------------------------------------- files

R1Missing == "P_R1_ordered_with_missing_R2.fastq"
R2Missing == "P_R2_ordered_with_missing_R1.fastq"
R1Paired == "P_R1_paired.fastq"
R2Paired == "P_R2_paired.fastq"

\* The order of the four writes of detangle().
WriteSequence == <<R1Missing, R2Missing, R1Paired, R2Paired>>
Files == {WriteSequence[n] : n \in DOMAIN WriteSequence}

Absent == [exists |-> FALSE, data |-> <<>>]
Present(data) == [exists |-> TRUE, data |-> data]

\* A record left by an earlier run under the same prefix.
StaleRecord == <<<<"@", "z", "/", "1", NL>>, <<"A", NL>>, <<"+", NL>>, <<"I", NL>>>>

\* ------------------------------------------------------------------ inputs

RecText(name, mate, seq) ==
    <<"@", name, "/", mate, NL, seq, NL, "+", NL, "I", NL>>

ChunkSet ==
    { RecText("a", "1", "A"), RecText("b", "1", "A"),
      RecText("a", "1", "+"),          \* a record whose sequence line starts with "+"
      RecText("a", "2", "A"), RecText("b", "2", "A"),
      RecText("b", "1", "A") \o RecText("b", "2", "A"),    \* an interleaved pair
      <<"@", "a", "/", "3", NL>>,      \* a header of neither mate type
      <<"@", "b", "/", "1", NL>>,      \* a header with no record behind it
      <<"x", NL>> }                    \* a stray line

ChunkSeqs == UNION {[1..n -> ChunkSet] : n \in 0..MaxChunks}

\* The same text with its last line terminator missing.
Unterminated(text) ==
    IF text # <<>> /\ text[Len(text)] = NL
    THEN SubSeq(text, 1, Len(text) - 1)
    ELSE text

Contents ==
    {Flatten(cs) : cs \in ChunkSeqs} \cup {Unterminated(Flatten(cs)) : cs \in ChunkSeqs}

InputFiles ==
    {[exists |-> FALSE, is_file |-> FALSE, content |-> <<>>],
     [exists |-> TRUE, is_file |-> FALSE, content |-> <<>>]}
    \cup {[exists |-> TRUE, is_file |-> TRUE, content |-> c] : c \in Contents}

\* ---------------------------------------------------------------- detangle

NoError == [kind |-> "none", msg |-> "none", at |-> "none"]
Raise(kind, msg, at) == [kind |-> kind, msg |-> msg, at |-> at]

Init ==
    /\ input_file \in InputFiles
    /\ disk0 \in {[f \in Files |-> Absent], [f \in Files |-> Present(<<StaleRecord>>)]}
    /\ disk = disk0
    /\ pc = "VALIDATING"
    /\ err = NoError
    /\ lines = <<>>
    /\ i = 0
    /\ header = <<>>
    /\ read_type = None
    /\ accepted = <<>>
    /\ malformed_records = <<>>
    /\ r1_reads = EmptyDict
    /\ r2_reads = EmptyDict
    /\ missing_r1 = EmptyDict
    /\ missing_r2 = EmptyDict
    /\ paired_r1 = EmptyDict
    /\ paired_r2 = EmptyDict
    /\ output_files = <<>>
    /\ opened = {}

parseVars == <<lines, i, header, read_type, accepted, malformed_records, r1_reads, r2_reads>>
partVars == <<missing_r1, missing_r2, paired_r1, paired_r2>>
outVars == <<disk, output_files, opened>>

Fail(e) == pc' = "FAILED" /\ err' = e

\* input_file.stat().st_size
st_size(f) == Len(f.content)

\* ValidationError with the is_file() check made before the exists() check.
ValidationErrorFileFirst(f) ==
    IF ~f.is_file THEN Raise("ValueError", "not a file", "validate")
    ELSE IF ~f.exists THEN Raise("FileNotFoundError", "not found", "validate")
    ELSE IF st_size(f) = 0 THEN Raise("ValueError", "empty", "validate")
    ELSE NoError

\* The input validation of detangle(): the first check that fails.
ValidationError(f) ==
    IF ~f.exists THEN Raise("FileNotFoundError", "not found", "validate")
    ELSE IF ~f.is_file THEN Raise("ValueError", "not a file", "validate")
    ELSE IF st_size(f) = 0 THEN Raise("ValueError", "empty", "validate")
    ELSE NoError

Validate ==
    /\ pc = "VALIDATING"
    /\ IF ValidationError(input_file) # NoError
       THEN Fail(ValidationError(input_file))
       ELSE pc' = "READING" /\ err' = err
    /\ UNCHANGED <<input_file, disk0, parseVars, partVars, outVars>>

\* with open(input_file, "r") as f: lines = f.readlines()
ReadInput ==
    /\ pc = "READING"
    /\ lines' = ReadLines(input_file.content)
    /\ i' = 0
    /\ pc' = "PARSING"
    /\ UNCHANGED <<input_file, disk0, err, header, read_type, accepted, malformed_records,
                   r1_reads, r2_reads, partVars, outVars>>

\* The read raises; _parse_fastq_file wraps whatever it was in OSError.
ReadInputFails ==
    /\ pc = "READING"
    /\ Fail(Raise("OSError", "error reading input file", "parse"))
    /\ UNCHANGED <<input_file, disk0, parseVars, partVars, outVars>>

\* ------------------------------------------------------- _parse_fastq_file

\* lines[i] of the source, whose cursor counts from 0.
LineAt(n) == lines[n + 1]

\* record = lines[i : i + 4]
RecordAt(n) == SubSeq(lines, n + 1, IF n + 4 <= Len(lines) THEN n + 4 ELSE Len(lines))

\* read_type and i + 3 < len(lines)
HasFourLines(rt, n) == rt # None /\ n + 3 < Len(lines)

\* len(record) == 4 and record[2].startswith("+")
WellFormed(record) == Len(record) = 4 /\ StartsWith(record[3], "+")

Parsing == pc = "PARSING" /\ i < Len(lines)

\* A classified header with a complete record behind it: the record is put
\* into the collection of its mate type and the cursor moves past it.
ParseAccept ==
    /\ Parsing
    /\ StartsWith(LineAt(i), "@")
    /\ LET hdr == Strip(LineAt(i))
           rt == _identify_read_type(hdr)
           record == RecordAt(i)
           base_name == _extract_base_name(hdr)
       IN  /\ HasFourLines(rt, i)
           /\ WellFormed(record)
           /\ header' = hdr
           /\ read_type' = rt
           /\ IF rt = "R1"
              THEN r1_reads' = SetItem(r1_reads, base_name, record)
                   /\ r2_reads' = r2_reads
              ELSE r2_reads' = SetItem(r2_reads, base_name, record)
                   /\ r1_reads' = r1_reads
           /\ accepted' = Append(accepted, [type |-> rt, name |-> base_name,
                                            record |-> record, at |-> i])
           /\ i' = i + 4
    /\ UNCHANGED <<input_file, disk0, pc, err, lines, malformed_records, partVars, outVars>>

\* AfterMalformed skipping the whole block instead of one line.
AfterMalformedSkip(n) == n + 4

\* malformed_records += 1; i += 1
AfterMalformed(n) == n + 1

\* A classified header whose third line does not start with "+".
ParseMalformed ==
    /\ Parsing
    /\ StartsWith(LineAt(i), "@")
    /\ LET hdr == Strip(LineAt(i))
           rt == _identify_read_type(hdr)
       IN  /\ HasFourLines(rt, i)
           /\ ~WellFormed(RecordAt(i))
           /\ header' = hdr
           /\ read_type' = rt
    /\ malformed_records' = Append(malformed_records, i)
    /\ i' = AfterMalformed(i)
    /\ UNCHANGED <<input_file, disk0, pc, err, lines, accepted, r1_reads, r2_reads,
                   partVars, outVars>>

\* A header of neither mate type, or one with fewer than 4 lines left.
ParseInvalid ==
    /\ Parsing
    /\ StartsWith(LineAt(i), "@")
    /\ LET hdr == Strip(LineAt(i))
           rt == _identify_read_type(hdr)
       IN  /\ ~HasFourLines(rt, i)
           /\ header' = hdr
           /\ read_type' = rt
    /\ i' = i + 1
    /\ UNCHANGED <<input_file, disk0, pc, err, lines, accepted, malformed_records,
                   r1_reads, r2_reads,
                   partVars, outVars>>

\* A line that does not start with "@".
ParseStray ==
    /\ Parsing
    /\ ~StartsWith(LineAt(i), "@")
    /\ i' = i + 1
    /\ UNCHANGED <<input_file, disk0, pc, err, lines, header, read_type, accepted, malformed_records,
                   r1_reads, r2_reads, partVars, outVars>>

\* NoValidReads with the second "not" left out.
NoValidReadsSecondKept(r1, r2) == r1 = EmptyDict /\ r2 # EmptyDict

\* if not r1_reads and not r2_reads
NoValidReads(r1, r2) == r1 = EmptyDict /\ r2 = EmptyDict

\* The loop ends and _parse_fastq_file returns to detangle().
ParseReturn ==
    /\ pc = "PARSING"
    /\ i >= Len(lines)
    /\ IF NoValidReads(r1_reads, r2_reads)
       THEN Fail(Raise("ValueError", "no valid reads", "check"))
       ELSE pc' = "ANALYZING" /\ err' = err
    /\ UNCHANGED <<input_file, disk0, parseVars, partVars, outVars>>

\* ---------------------------------------------------------------- analysis

Analyze ==
    /\ pc = "ANALYZING"
    /\ \E order \in IterationOrders(paired_names(r1_reads, r2_reads)) :
          /\ missing_r1' = _identify_missing_pairs(r1_reads, r2_reads)[1]
          /\ missing_r2' = _identify_missing_pairs(r1_reads, r2_reads)[2]
          /\ paired_r1' = _identify_paired_reads(r1_reads, r2_reads, order)[1]
          /\ paired_r2' = _identify_paired_reads(r1_reads, r2_reads, order)[2]
    /\ pc' = "WRITING"
    /\ UNCHANGED <<input_file, disk0, err, parseVars, outVars>>

\* ----------------------------------------------------------------- writing

PartitionOf(f) ==
    CASE f = R1Missing -> missing_r1
      [] f = R2Missing -> missing_r2
      [] f = R1Paired -> paired_r1
      [] f = R2Paired -> paired_r2

\* The file the next _write_fastq_file call of detangle() is given.
NextFile == WriteSequence[Len(output_files) + 1]

Writing == pc = "WRITING" /\ Len(output_files) < Len(WriteSequence)

\* AfterWrite leaving the try block one write early.
AfterWriteEarly(files) == IF Len(files) >= Len(WriteSequence) - 1 THEN "FINISHING" ELSE "WRITING"

\* After the last write detangle() leaves the try block.
AfterWrite(files) == IF Len(files) = Len(WriteSequence) THEN "FINISHING" ELSE "WRITING"

\* if not output_path.exists(): raise OSError
VerifyExists(file) == file.exists

\* _write_fastq_file returns; detangle() appends the file to output_files.
WriteOk ==
    /\ Writing
    /\ LET written == Present(_write_fastq_file(PartitionOf(NextFile)))
       IN  /\ VerifyExists(written)
           /\ disk' = [disk EXCEPT ![NextFile] = written]
    /\ opened' = opened \cup {NextFile}
    /\ output_files' = Append(output_files, NextFile)
    /\ pc' = AfterWrite(output_files')
    /\ UNCHANGED <<input_file, disk0, err, parseVars, partVars>>

\* open(output_file, "w") raises: nothing is created or changed.
WriteOpenFails ==
    /\ Writing
    /\ pc' = "CLEANUP"
    /\ UNCHANGED <<input_file, disk0, err, parseVars, partVars, outVars>>

\* A write or the close raises after open() created (or truncated) the file:
\* some of the records may have reached it.
WriteFailsAfterOpen ==
    /\ Writing
    /\ LET data == _write_fastq_file(PartitionOf(NextFile))
       IN  \E n \in 0..Len(data) :
              disk' = [disk EXCEPT ![NextFile] = Present(SubSeq(data, 1, n))]
    /\ opened' = opened \cup {NextFile}
    /\ pc' = "CLEANUP"
    /\ UNCHANGED <<input_file, disk0, err, parseVars, partVars, output_files>>

\* The file is written and closed, and is gone when output_path.exists() looks.
WriteVanishes ==
    /\ Writing
    /\ ~VerifyExists(Absent)
    /\ disk' = [disk EXCEPT ![NextFile] = Absent]
    /\ opened' = opened \cup {NextFile}
    /\ pc' = "CLEANUP"
    /\ UNCHANGED <<input_file, disk0, err, parseVars, partVars, output_files>>

\* The files the except block of detangle() unlinks.
CleanupList == {output_files[n] : n \in DOMAIN output_files}

\* except Exception: unlink each file of output_files (a failing unlink is
\* passed over), then raise OSError.
Cleanup ==
    /\ pc = "CLEANUP"
    /\ \E kept \in SUBSET CleanupList :
          disk' = [f \in Files |-> IF f \in CleanupList \ kept THEN Absent ELSE disk[f]]
    /\ Fail(Raise("OSError", "error writing output files", "write"))
    /\ UNCHANGED <<input_file, disk0, parseVars, partVars, output_files, opened>>

\* --------------------------------------------------------------- finishing

\* total_time = time.time() - start_time
ElapsedTimes == 0..MaxElapsed

\* len(r1_reads) + len(r2_reads) / total_time is defined
SpeedDefined(total_time) == total_time # 0

\* The closing log lines are formatted and detangle() returns.
Finish ==
    /\ pc = "FINISHING"
    /\ \E total_time \in ElapsedTimes : SpeedDefined(total_time)
    /\ pc' = "DONE"
    /\ UNCHANGED <<input_file, disk0, err, parseVars, partVars, outVars>>

\* The clock did not advance during the run: the division raises.
FinishDividesByZero ==
    /\ pc = "FINISHING"
    /\ \E total_time \in ElapsedTimes : ~SpeedDefined(total_time)
    /\ Fail(Raise("ZeroDivisionError", "float division by zero", "finish"))
    /\ UNCHANGED <<input_file, disk0, parseVars, partVars, outVars>>

Next ==
    \/ Validate
    \/ ReadInput
    \/ ReadInputFails
    \/ ParseAccept
    \/ ParseMalformed
    \/ ParseInvalid
    \/ ParseStray
    \/ ParseReturn
    \/ Analyze
    \/ WriteOk
    \/ WriteOpenFails
    \/ WriteFailsAfterOpen
    \/ WriteVanishes
    \/ Cleanup
    \/ Finish
    \/ FinishDividesByZero

Spec == Init /\ [][Next]_vars

\* ------------------------------------------------- the classifier on its own

HeaderChars == {"@", "a", "/", "1", "2", "3", NL}
HeaderStrings == UNION {[1..n -> HeaderChars] : n \in 0..MaxHdrLen}

InitClassify ==
    /\ input_file = [exists |-> FALSE, is_file |-> FALSE, content |-> <<>>]
    /\ disk0 = [f \in Files |-> Absent]
    /\ disk = disk0
    /\ pc = "CLASSIFY"
    /\ err = NoError
    /\ lines = <<>>
    /\ i = 0
    /\ header \in HeaderStrings
    /\ read_type = "unset"
    /\ accepted = <<>>
    /\ malformed_records = <<>>
    /\ r1_reads = EmptyDict
    /\ r2_reads = EmptyDict
    /\ missing_r1 = EmptyDict
    /\ missing_r2 = EmptyDict
    /\ paired_r1 = EmptyDict
    /\ paired_r2 = EmptyDict
    /\ output_files = <<>>
    /\ opened = {}

\* read_type = self._identify_read_type(header)
Classify ==
    /\ pc = "CLASSIFY"
    /\ read_type' = _identify_read_type(header)
    /\ pc' = "CLASSIFIED"
    /\ UNCHANGED <<input_file, disk, disk0, err, lines, i, header, accepted, malformed_records,
                   r1_reads, r2_reads, partVars, output_files, opened>>

NextClassify == Classify

SpecClassify == InitClassify /\ [][NextClassify]_vars

\* ================================================================== claims

\* The analysis has been made in this run.
Analysed ==
    \/ pc \in {"WRITING", "CLEANUP", "FINISHING", "DONE"}
    \/ pc = "FAILED" /\ err.at \in {"write", "finish"}

InExactlyOne(key, source, missing, paired) ==
    \/ Has(missing, key) /\ ~Has(paired, key) /\ Get(missing, key) = Get(source, key)
    \/ Has(paired, key) /\ ~Has(missing, key) /\ Get(paired, key) = Get(source, key)

\* C1: once the partitions are computed, every base name of the first-mate
\* collection is a key of exactly one of missing_r1 and paired_r1, every base
\* name of the second-mate collection a key of exactly one of missing_r2 and
\* paired_r2, no base name is in the missing and the paired partition of one
\* mate type, and each partition holds the record its source holds.
C1_PartitionComplete ==
    Analysed =>
        /\ \A key \in Keys(r1_reads) : InExactlyOne(key, r1_reads, missing_r1, paired_r1)
        /\ \A key \in Keys(r2_reads) : InExactlyOne(key, r2_reads, missing_r2, paired_r2)
        /\ Keys(missing_r1) \cap Keys(paired_r1) = {}
        /\ Keys(missing_r2) \cap Keys(paired_r2) = {}

\* C1 witness: a run whose first-mate collection is split over both
\* partitions.
C1_Witness ==
    /\ pc = "WRITING"
    /\ missing_r1 # EmptyDict
    /\ paired_r1 # EmptyDict
    /\ paired_r2 # EmptyDict

\* C2: whenever one of the four writes fails, detangle() ends FAILED with
\* every output file this run created removed, the file whose write failed
\* after it was created included: none of the four is left on disk by it.
C2_AllOrNothing ==
    (pc = "FAILED" /\ err.at = "write") => \A f \in opened : ~disk[f].exists

\* The number of writelines calls in file f that wrote exactly this record.
TimesWritten(record, f) ==
    Cardinality({n \in DOMAIN disk[f].data : disk[f].data[n] = record})

\* The output files of a mate type.
FilesOf(type) == IF type = "R1" THEN {R1Missing, R1Paired} ELSE {R2Missing, R2Paired}

WrittenOnce(a) ==
    /\ \E f \in FilesOf(a.type) : TimesWritten(a.record, f) = 1
    /\ \A f, g \in FilesOf(a.type) :
          TimesWritten(a.record, f) > 0 /\ TimesWritten(a.record, g) > 0 => f = g

\* A later accepted block has the mate type and base name of accepted[n].
Overwritten(n) ==
    \E m \in DOMAIN accepted :
        m > n /\ accepted[m].type = accepted[n].type /\ accepted[m].name = accepted[n].name

\* C3 as stated: after a successful run every block the parser accepted,
\* blocks with a repeated base name included, is written with its 4 lines
\* exactly once across the output files of its mate type.
C3_RoundTripAll ==
    pc = "DONE" => \A n \in DOMAIN accepted : WrittenOnce(accepted[n])

\* C3 amended: after a successful run every accepted block that no later
\* accepted block of the same mate type and base name replaced is written
\* with its 4 lines exactly once across the output files of its mate type.
C3_RoundTripLast ==
    pc = "DONE" => \A n \in DOMAIN accepted : ~Overwritten(n) => WrittenOnce(accepted[n])

\* C3 witness: a successful run in which a block was replaced by a later
\* block of the same mate type and base name with other lines.
C3_Witness ==
    /\ pc = "DONE"
    /\ \E n \in DOMAIN accepted :
          /\ Overwritten(n)
          /\ \A m \in DOMAIN accepted : m > n => accepted[m].record # accepted[n].record

\* C4: a run of detangle() that has ended either returned after four
\* successful writes or raised FileNotFoundError, ValueError or OSError.
C4_TypedFailures ==
    /\ pc = "DONE" => output_files = WriteSequence
    /\ pc = "FAILED" => err.kind \in {"FileNotFoundError", "ValueError", "OSError"}

Rejected(kind, msg) ==
    /\ pc = "FAILED"
    /\ err = Raise(kind, msg, "validate")
    /\ lines = <<>> /\ i = 0 /\ accepted = <<>>
    /\ disk = disk0 /\ opened = {} /\ output_files = <<>>

\* C5: a path that does not exist is rejected with FileNotFoundError, else a
\* path that is no regular file with ValueError, else a file of size 0 with
\* ValueError, each time before the input is read and before any output
\* file is touched.
C5_ValidationFirst ==
    pc # "VALIDATING" =>
        /\ ~input_file.exists => Rejected("FileNotFoundError", "not found")
        /\ input_file.exists /\ ~input_file.is_file => Rejected("ValueError", "not a file")
        /\ input_file.exists /\ input_file.is_file /\ Len(input_file.content) = 0
              => Rejected("ValueError", "empty")

\* C5 witness: an existing regular file of size 0 has been rejected.
C5_Witness ==
    /\ pc = "FAILED"
    /\ input_file.exists /\ input_file.is_file /\ input_file.content = <<>>

\* The parser has returned to detangle().
Parsed ==
    \/ pc \in {"ANALYZING", "WRITING", "CLEANUP", "FINISHING", "DONE"}
    \/ pc = "FAILED" /\ err.at \in {"check", "write", "finish"}

\* C6: when the parser returns with both collections empty, detangle() has
\* failed with ValueError "no valid reads", raised after the whole input was
\* scanned, and no output file was created or changed.
C6_NoValidReads ==
    (Parsed /\ r1_reads = EmptyDict /\ r2_reads = EmptyDict) =>
        /\ pc = "FAILED"
        /\ err = Raise("ValueError", "no valid reads", "check")
        /\ i >= Len(lines)
        /\ disk = disk0 /\ opened = {} /\ output_files = <<>>

\* C6 witness: an input whose only header is of neither mate type was
\* parsed to the end and rejected.
C6_Witness ==
    /\ pc = "FAILED"
    /\ err.msg = "no valid reads"
    /\ header = <<"@", "a", "/", "3">>
    /\ lines # <<>>

FixedOrder == <<R1Missing, R2Missing, R1Paired, R2Paired>>

\* C7: the files are written one at a time in the order missing-first,
\* missing-second, paired-first, paired-second; detangle() is DONE only
\* after the four writes succeeded, and then all four files exist, those of
\* an empty partition too.
C7_WriteOrder ==
    /\ output_files = SubSeq(FixedOrder, 1, Len(output_files))
    /\ opened \subseteq {FixedOrder[n] : n \in 1..(IF Len(output_files) < 4 THEN Len(output_files) + 1 ELSE 4)}
    /\ pc \in {"FINISHING", "DONE"} => output_files = FixedOrder
    /\ pc = "DONE" => \A n \in 1..4 : disk[FixedOrder[n]].exists

\* C7 witness: a successful run over output paths that did not exist, with
\* both paired partitions empty.
C7_Witness ==
    /\ pc = "DONE"
    /\ \A f \in Files : ~disk0[f].exists
    /\ paired_r1 = EmptyDict /\ paired_r2 = EmptyDict

\* The base name of a written record.
BaseNameOf(record) == _extract_base_name(Strip(record[1]))

\* The entries of a dict inserted in another order.
Reordered(d, order) == [n \in DOMAIN order |-> d[order[n]]]

\* C8: a file the writer completed holds the records of its partition, each
\* with its 4 lines, in strictly ascending order of base name, and the
\* writer gives the same output for the partition's entries inserted in any
\* other order.
C8_SortedOutput ==
    \A n \in DOMAIN output_files :
        LET f == output_files[n]
            part == PartitionOf(f)
            data == disk[f].data
        IN  disk[f].exists =>
            /\ Len(data) = Len(part)
            /\ \A j \in DOMAIN data :
                  Has(part, BaseNameOf(data[j])) /\ data[j] = Get(part, BaseNameOf(data[j]))
            /\ \A j \in 1..(Len(data) - 1) :
                  StrLess(BaseNameOf(data[j]), BaseNameOf(data[j + 1]))
            /\ \A order \in IterationOrders(DOMAIN part) :
                  _write_fastq_file(Reordered(part, order)) = data

\* C8 witness: a successful run whose paired-first file holds two records
\* and whose paired partitions were filled in descending order of base name,
\* the order the iteration over the set of paired names gave.
C8_Witness ==
    /\ pc = "DONE"
    /\ KeySeq(paired_r1) = << <<"b">>, <<"a">> >>
    /\ Len(disk[R1Paired].data) = 2

\* The lines a reader finds in file f.
LinesOf(f) == ReadLines(FileText(disk[f].data))

\* C9: after a successful run each output file is made of whole 4-line
\* blocks: its number of lines is a multiple of 4, every block's first line
\* starts with "@" and its third line with "+".
C9_WholeBlocks ==
    pc = "DONE" =>
        \A f \in Files :
            /\ Len(LinesOf(f)) % 4 = 0
            /\ \A n \in DOMAIN LinesOf(f) :
                  /\ n % 4 = 1 => StartsWith(LinesOf(f)[n], "@")
                  /\ n % 4 = 3 => StartsWith(LinesOf(f)[n], "+")

\* h is "@", a non-empty identifier free of line terminators, "/", the
\* digit, and nothing else.
ExactShape(h, digit) ==
    /\ Len(h) >= 4
    /\ h[1] = "@"
    /\ h[Len(h) - 1] = "/"
    /\ h[Len(h)] = digit
    /\ \A k \in 2..(Len(h) - 2) : h[k] # NL

\* C10: a header is classified R1 exactly when it is "@", a non-empty
\* identifier and "/1" with no character after it, R2 exactly when it ends
\* "/2" likewise, and None in every other case.
C10_ExactShape ==
    pc = "CLASSIFIED" =>
        /\ read_type = "R1" <=> ExactShape(header, "1")
        /\ read_type = "R2" <=> ExactShape(header, "2")
        /\ read_type = None <=> ~ExactShape(header, "1") /\ ~ExactShape(header, "2")

\* The line at cursor n opens a block the parser takes: a header of a mate
\* type, 4 lines from n on, the third of them starting with "+".
AcceptableAt(n) ==
    /\ n + 4 <= Len(lines)
    /\ StartsWith(lines[n + 1], "@")
    /\ _identify_read_type(Strip(lines[n + 1])) # None
    /\ StartsWith(lines[n + 3], "+")

\* The block at cursor n is what the collection of its mate type holds for
\* its base name after the step, and the other collection is as it was.
InsertedAt(n) ==
    LET hdr == Strip(lines[n + 1])
        name == _extract_base_name(hdr)
        block == SubSeq(lines, n + 1, n + 4)
    IN  IF _identify_read_type(hdr) = "R1"
        THEN Has(r1_reads', name) /\ Get(r1_reads', name) = block /\ r2_reads' = r2_reads
        ELSE Has(r2_reads', name) /\ Get(r2_reads', name) = block /\ r1_reads' = r1_reads

\* One step of the parser loop.
CursorStep ==
    (pc = "PARSING" /\ i < Len(lines)) =>
        IF AcceptableAt(i)
        THEN i' = i + 4 /\ InsertedAt(i)
        ELSE i' = i + 1 /\ r1_reads' = r1_reads /\ r2_reads' = r2_reads

\* The parser accepted the block that starts at cursor n.
AcceptedAt(n) == \E k \in DOMAIN accepted : accepted[k].at = n

\* Every acceptable block up to 3 lines after a malformed header that the
\* cursor has passed was accepted.
AllRescanned ==
    \A k \in DOMAIN malformed_records : \A d \in 1..3 :
        LET n == malformed_records[k] + d
        IN  (i > n /\ AcceptableAt(n)) => AcceptedAt(n)

\* The same, but for a block whose header line lies inside a block accepted
\* from a line between the malformed header and it.
RescannedUnlessCovered ==
    \A k \in DOMAIN malformed_records : \A d \in 1..3 :
        LET m == malformed_records[k]
            n == m + d
        IN  (i > n /\ AcceptableAt(n)) =>
                \/ AcceptedAt(n)
                \/ \E q \in (m + 1)..(n - 1) : AcceptedAt(q)

\* C11 as stated: each parser step moves the cursor by 4 and inserts the
\* block when the line at the cursor is a classified header with 4 lines
\* left and a third line starting with "+", and by 1 inserting nothing
\* otherwise; and a well-formed classified record that starts on any of the
\* three lines after a malformed header is accepted.
C11_CursorAndRescanAll == [][CursorStep]_vars /\ []AllRescanned

\* C11 amended: the same cursor discipline; a well-formed classified record
\* that starts on one of the three lines after a malformed header is
\* accepted unless a block accepted from a line between the two covers its
\* header line (so the one on the very next line always is).
C11_CursorAndRescan == [][CursorStep]_vars /\ []RescannedUnlessCovered

\* C11 witness: the parser found a malformed header, went on one line at a
\* time and accepted the record that starts two lines after it.
C11_Witness ==
    /\ pc = "PARSING"
    /\ \E k \in DOMAIN malformed_records :
          /\ AcceptedAt(malformed_records[k] + 2)
          /\ ~AcceptedAt(malformed_records[k] + 1)

\* The collection of a mate type.
CollectionOf(type) == IF type = "R1" THEN r1_reads ELSE r2_reads

\* The base names of the blocks accepted so far for a mate type.
AcceptedNames(type) ==
    {accepted[n].name : n \in {k \in DOMAIN accepted : accepted[k].type = type}}

\* The entries a collection holds for a base name.
EntriesFor(d, name) == {n \in DOMAIN d : d[n].k = name}

\* C12: each collection holds exactly the base names accepted for its mate
\* type, one entry for each, and the entry's record is the block accepted
\* last for that mate type and base name; what was accepted for the other
\* mate type does not enter into it.
C12_LastWriteWins ==
    \A type \in {"R1", "R2"} :
        LET d == CollectionOf(type)
        IN  /\ Keys(d) = AcceptedNames(type)
            /\ \A n \in DOMAIN accepted :
                  (accepted[n].type = type /\ ~Overwritten(n)) =>
                      /\ Cardinality(EntriesFor(d, accepted[n].name)) = 1
                      /\ \A e \in EntriesFor(d, accepted[n].name) : d[e].v = accepted[n].record

\* C12 witness: two blocks with other lines were accepted for base name a of
\* the first mate type, after a block of the second mate type with the same
\* base name.
C12_Witness ==
    /\ Len(accepted) = 3
    /\ accepted[1].type = "R2"
    /\ accepted[2].type = "R1" /\ accepted[3].type = "R1"
    /\ accepted[1].name = accepted[2].name /\ accepted[2].name = accepted[3].name
    /\ accepted[2].record # accepted[3].record
    /\ Len(r1_reads) = 1 /\ Len(r2_reads) = 1

\* The header lines a reader finds in file f, one per 4-line block.
HeadersOf(f) ==
    LET ls == LinesOf(f)
    IN  [n \in 1..((Len(ls) + 3) \div 4) |-> Strip(ls[4 * n - 3])]

\* C13: after a successful run the paired-first and the paired-second file
\* hold the same number of records, and the n-th record of the one and the
\* n-th record of the other have the same base name, under an R1 header in
\* the paired-first file and an R2 header in the paired-second file.
C13_PairedAligned ==
    pc = "DONE" =>
        /\ Len(LinesOf(R1Paired)) = Len(LinesOf(R2Paired))
        /\ Len(HeadersOf(R1Paired)) = Len(HeadersOf(R2Paired))
        /\ \A n \in DOMAIN HeadersOf(R1Paired) :
              /\ _identify_read_type(HeadersOf(R1Paired)[n]) = "R1"
              /\ _identify_read_type(HeadersOf(R2Paired)[n]) = "R2"
              /\ _extract_base_name(HeadersOf(R1Paired)[n])
                    = _extract_base_name(HeadersOf(R2Paired)[n])

====
